---- MODULE Spec2Model ----
(***************************************************************************)
(* Model of sql_go/sqlite.go: a users table (id, name, email, score) kept  *)
(* in an embedded SQL engine, and the functions insertUser, updateScore,   *)
(* getUserByID, getAllUsers, transferScore and queryWithTimeout that one   *)
(* sequential caller runs against one shared *sql.DB handle.               *)
(***************************************************************************)
EXTENDS Integers, Sequences, FiniteSets, TLC

\* ------------------------------------------------------------ bounds
MaxScore == 1
MaxAmount == 2

MinScore == -MaxScore
Scores == MinScore..MaxScore
NewScores == 0..MaxScore
Amounts == 1..MaxAmount
Emails == {"alice@example.com", "bob@example.com", "carol@example.com"}
\* the (name, email) pairs insertUser is called with
NewUsers == {<<"Alice", "alice@example.com">>, <<"Bob", "bob@example.com">>,
             <<"Alice", "bob@example.com">>, <<"Bob", "carol@example.com">>}
\* the ids the functions are called with: every id a row can have, and one more
Ids == 1..(Cardinality(Emails) + 1)

VARIABLES
    table,      \* committed rows of users, in rowid order
    seq,        \* the AUTOINCREMENT counter of users (largest id ever assigned)
    assigned,   \* history: the ids insertUser has returned so far
    pc,         \* the caller's position: "idle" between calls, a line inside a running
                \* function, or "ret" when the function has just returned
    call,       \* the running (or last) invocation and its arguments
    pre,        \* history: table as it was when the invocation started
    out,        \* what the last invocation returned and logged
    txState,    \* state of the transaction of the running (or last) transferScore
    txOpen,     \* number of transactions open on the handle
    work,       \* the rows as the open transaction sees them
    rowsOpen,   \* number of *sql.Rows cursors open on the handle
    cursor,     \* rows the open cursor of getAllUsers has still to deliver
    users,      \* the slice getAllUsers is building
    ctxExpired, \* ctx.Err() == context.DeadlineExceeded
    qerr,       \* err of QueryContext in queryWithTimeout
    rowsErr,    \* the error the cursor of getAllUsers has met (of rows.Scan, or rows.Err())
    main        \* main's position (line 0: a caller that makes any calls), the ids it
                \* holds, and history: whether every write it asked for was done

vars == <<table, seq, assigned, pc, call, pre, out, txState, txOpen, work,
          rowsOpen, cursor, users, ctxExpired, qerr, rowsErr, main>>

\* ------------------------------------------------------------ the table
User(id, name, email, score) ==
    [id |-> id, name |-> name, email |-> email, score |-> score]

HasId(t, id) == \E i \in DOMAIN t : t[i].id = id

HasEmail(t, email) == \E i \in DOMAIN t : t[i].email = email

RECURSIVE SumScores(_)
SumScores(t) == IF t = <<>> THEN 0 ELSE Head(t).score + SumScores(Tail(t))

\* the row with this id (ids are the primary key)
RowOf(t, id) == t[CHOOSE i \in DOMAIN t : t[i].id = id]

\* AUTOINCREMENT: one more than the largest id ever assigned
NextId(t, s) == s + 1

\* email TEXT UNIQUE: the INSERT is refused when a row holds this email
ViolatesUniqueNever(t, email) == FALSE
ViolatesUnique(t, email) == HasEmail(t, email)

\* INSERT INTO users (name, email, score) VALUES (?, ?, ?)
SqlInsertNoScore(t, s, name, email, score) ==
    Append(t, User(NextId(t, s), name, email, 0))
SqlInsert(t, s, name, email, score) == Append(t, User(NextId(t, s), name, email, score))

\* UPDATE users SET score = ? WHERE id = ?
SqlSetScoreAll(t, id, v) ==
    [i \in DOMAIN t |-> [t[i] EXCEPT !.score = v]]
SqlSetScoreAdds(t, id, v) ==
    [i \in DOMAIN t |-> IF t[i].id = id THEN [t[i] EXCEPT !.score = @ + v] ELSE t[i]]
SqlSetScore(t, id, v) ==
    [i \in DOMAIN t |-> IF t[i].id = id THEN [t[i] EXCEPT !.score = v] ELSE t[i]]

\* UPDATE users SET score = score + ? WHERE id = ?   (d is -amount for the debit)
SqlAddScoreAbs(t, id, d) ==
    [i \in DOMAIN t |-> IF t[i].id = id
                        THEN [t[i] EXCEPT !.score = @ + (IF d < 0 THEN -d ELSE d)]
                        ELSE t[i]]
SqlAddScoreAll(t, id, d) ==
    [i \in DOMAIN t |-> [t[i] EXCEPT !.score = @ + d]]
SqlAddScore(t, id, d) ==
    [i \in DOMAIN t |-> IF t[i].id = id THEN [t[i] EXCEPT !.score = @ + d] ELSE t[i]]

\* SELECT id, name, email, score FROM users WHERE id = ?
SqlSelectById(t, id) == SelectSeq(t, LAMBDA r : r.id = id)

\* ORDER BY score DESC, ties in rowid order: insertion of r into a sorted list
RECURSIVE InsertDesc(_, _)
InsertDesc(r, s) ==
    IF s = <<>> THEN <<r>>
    ELSE IF r.score > Head(s).score THEN <<r>> \o s
    ELSE <<Head(s)>> \o InsertDesc(r, Tail(s))

RECURSIVE SortDesc(_)
SortDesc(t) ==
    IF t = <<>> THEN <<>>
    ELSE InsertDesc(t[Len(t)], SortDesc(SubSeq(t, 1, Len(t) - 1)))

\* SELECT id, name, email, score FROM users ORDER BY score DESC
SqlSelectUnordered(t) == t
SqlSelectAllByScoreDesc(t) == SortDesc(t)

InRange(t) == \A i \in DOMAIN t : t[i].score \in Scores

\* ------------------------------------------------------------ main
\* the scores and the amount of main's calls (lines 37, 38, 42 and 63)
AliceScore == 100
BobScore == 150
AliceNewScore == 120
TransferAmount == 20

Main(line, idAlice, idBob, ok) ==
    [line |-> line, idAlice |-> idAlice, idBob |-> idBob, ok |-> ok]
NoMain == Main(0, 0, 0, TRUE)
MainStart == Main(37, 0, 0, TRUE)

\* ------------------------------------------------------------ results
NoCall == [op |-> "none", id |-> 0, to |-> 0, n |-> 0, name |-> "", email |-> ""]
Call(op, id, to, n, name, email) ==
    [op |-> op, id |-> id, to |-> to, n |-> n, name |-> name, email |-> email]

\* err: the error value returned ("nil" also for the functions that return none)
\* log: the kind of the last line the function logged
Out(err, log, id, user, us) ==
    [err |-> err, log |-> log, id |-> id, user |-> user, users |-> us]
NoOut == Out("nil", "", 0, <<>>, <<>>)

InitStore ==
    /\ table = <<>>
    /\ seq = 0
    /\ assigned = {}
    /\ pc = "idle"
    /\ call = NoCall
    /\ pre = <<>>
    /\ out = NoOut
    /\ txState = "Idle"
    /\ txOpen = 0
    /\ work = <<>>
    /\ rowsOpen = 0
    /\ cursor = <<>>
    /\ users = <<>>
    /\ ctxExpired = FALSE
    /\ qerr = "nil"
    /\ rowsErr = "nil"

\* a caller that makes any call with any of the bounded arguments
Init == InitStore /\ main = NoMain

\* main itself, about to make its first call on a new, empty database file
MainInit == InitStore /\ main = MainStart

\* ------------------------------------------------------------ insertUser
insertUser(name, email, score) ==
    /\ pc = "idle"
    /\ call' = Call("insert", 0, 0, score, name, email)
    /\ pre' = table
    /\ \E fail \in BOOLEAN :
        /\ IF fail THEN
            /\ out' = Out("StoreUnavailable", "", 0, <<>>, <<>>)
            /\ UNCHANGED <<table, seq, assigned>>
           ELSE IF ViolatesUnique(table, email) THEN
            /\ out' = Out("ConstraintViolation", "", 0, <<>>, <<>>)
            /\ UNCHANGED <<table, seq, assigned>>
           ELSE
            /\ table' = SqlInsert(table, seq, name, email, score)
            /\ seq' = NextId(table, seq)
            /\ assigned' = assigned \cup {NextId(table, seq)}
            /\ out' = Out("nil", "", NextId(table, seq), <<>>, <<>>)
    /\ pc' = "ret"
    /\ UNCHANGED <<main, txState, txOpen, work, rowsOpen, rowsErr, cursor, users, ctxExpired, qerr>>

\* ------------------------------------------------------------ updateScore
updateScore(id, newScore) ==
    /\ pc = "idle"
    /\ call' = Call("update", id, 0, newScore, "", "")
    /\ pre' = table
    /\ \E fail \in BOOLEAN :
        IF fail THEN
            /\ out' = Out("nil", "update_error", 0, <<>>, <<>>)
            /\ UNCHANGED table
        ELSE
            /\ table' = SqlSetScore(table, id, newScore)
            /\ out' = Out("nil", "updated", 0, <<>>, <<>>)
    /\ pc' = "ret"
    /\ UNCHANGED <<main, seq, assigned, txState, txOpen, work, rowsOpen, rowsErr, cursor, users,
                   ctxExpired, qerr>>

\* ------------------------------------------------------------ getUserByID
\* QueryRow(...).Scan(...): sql.ErrNoRows becomes fmt.Errorf("... не найден"), a
\* plain error text; else the first row
GetUserByID(t, id) ==
    IF SqlSelectById(t, id) = <<>>
    THEN Out("errorString", "", 0, <<>>, <<>>)
    ELSE Out("nil", "", 0, <<Head(SqlSelectById(t, id))>>, <<>>)

getUserByID(id) ==
    /\ pc = "idle"
    /\ call' = Call("get", id, 0, 0, "", "")
    /\ pre' = table
    /\ \E fail \in BOOLEAN :
        IF fail THEN out' = Out("StoreUnavailable", "", 0, <<>>, <<>>)
        ELSE out' = GetUserByID(table, id)
    /\ pc' = "ret"
    /\ UNCHANGED <<main, table, seq, assigned, txState, txOpen, work, rowsOpen, rowsErr, cursor,
                   users, ctxExpired, qerr>>

\* ------------------------------------------------------------ getAllUsers
\* db.Query (line 125): on error return nil, err; else a cursor is open
getAllUsersQuery ==
    /\ pc = "idle"
    /\ call' = Call("list", 0, 0, 0, "", "")
    /\ pre' = table
    /\ \E fail \in BOOLEAN :
        IF fail THEN
            /\ out' = Out("StoreUnavailable", "", 0, <<>>, <<>>)
            /\ pc' = "ret"
            /\ UNCHANGED <<rowsOpen, cursor>>
        ELSE
            /\ out' = NoOut
            /\ rowsOpen' = rowsOpen + 1
            /\ cursor' = SqlSelectAllByScoreDesc(table)
            /\ pc' = "l133"
    /\ users' = <<>>
    /\ UNCHANGED <<main, table, seq, assigned, txState, txOpen, work, ctxExpired, qerr, rowsErr>>

\* the error returned when rows.Scan fails (line 136)
ScanErr(e) == e

\* the error returned after the loop (line 141): rows.Err()
RowsErrDropped(e) == "nil"
RowsErr(e) == e

\* one turn of the loop (lines 133-139): rows.Next() is true, Scan, append
getAllUsersNext ==
    /\ pc = "l133"
    /\ cursor # <<>>
    /\ \E fail \in BOOLEAN :
        IF fail THEN  \* rows.Scan fails: return nil, err
            /\ rowsErr' = "StoreUnavailable"
            /\ out' = Out(ScanErr("StoreUnavailable"), "", 0, <<>>, <<>>)
            /\ pc' = "ldefer"
            /\ UNCHANGED <<users, cursor>>
        ELSE
            /\ users' = Append(users, Head(cursor))
            /\ cursor' = Tail(cursor)
            /\ UNCHANGED <<out, pc, rowsErr>>
    /\ UNCHANGED <<main, table, seq, assigned, call, pre, txState, txOpen, work, rowsOpen,
                   ctxExpired, qerr>>

\* rows.Next() is false (lines 133, 141): return users, rows.Err().  Next is
\* false when the rows are used up, or when the engine fails while stepping.
getAllUsersEnd ==
    /\ pc = "l133"
    /\ \E fail \in BOOLEAN :
        IF fail THEN
            /\ rowsErr' = "StoreUnavailable"
            /\ out' = Out(RowsErr("StoreUnavailable"), "", 0, <<>>, users)
        ELSE
            /\ cursor = <<>>
            /\ rowsErr' = "nil"
            /\ out' = Out(RowsErr("nil"), "", 0, <<>>, users)
    /\ pc' = "ldefer"
    /\ UNCHANGED <<main, table, seq, assigned, call, pre, txState, txOpen, work, rowsOpen,
                   cursor, users, ctxExpired, qerr>>

\* defer rows.Close() (line 129)
RowsCloseLeak(n) == n
RowsClose(n) == n - 1

getAllUsersReturn ==
    /\ pc = "ldefer"
    /\ rowsOpen' = RowsClose(rowsOpen)
    /\ cursor' = <<>>
    /\ users' = <<>>
    /\ pc' = "ret"
    /\ UNCHANGED <<main, table, seq, assigned, call, pre, out, txState, txOpen, work,
                   ctxExpired, qerr, rowsErr>>

\* ------------------------------------------------------------ transferScore
\* what a transfer of amount from fromID to toID makes of the rows
Transferred(t, fromID, toID, amount) ==
    SqlAddScore(SqlAddScore(t, fromID, -amount), toID, amount)

\* tx, err := db.Begin() (lines 147-152)
transferBegin(fromID, toID, amount) ==
    /\ pc = "idle"
    /\ call' = Call("transfer", fromID, toID, amount, "", "")
    /\ pre' = table
    /\ \E fail \in BOOLEAN :
        IF fail THEN
            /\ out' = Out("nil", "begin_error", 0, <<>>, <<>>)
            /\ pc' = "ret"
            /\ UNCHANGED <<txState, txOpen, work>>
        ELSE
            /\ out' = NoOut
            /\ txState' = "TxOpen"
            /\ txOpen' = txOpen + 1
            /\ work' = table
            /\ pc' = "t155"
    /\ UNCHANGED <<main, table, seq, assigned, rowsOpen, rowsErr, cursor, users, ctxExpired, qerr>>

\* score INTEGER carries no CHECK constraint: no UPDATE is refused for the
\* scores it leaves
ViolatesCheckIfNegative(t) == \E i \in DOMAIN t : t[i].score < 0
ViolatesCheck(t) == FALSE

\* what the store shows outside the transaction after a tx.Exec: the rows
\* written are the transaction's own until it commits
TxWriteThrough(committed, working) == working
TxWrite(committed, working) == committed

\* UPDATE users SET score = score - ? WHERE id = ? (lines 155-159)
transferDebit ==
    /\ pc = "t155"
    /\ \E fail \in BOOLEAN :
        IF fail \/ ViolatesCheck(SqlAddScore(work, call.id, -call.n)) THEN
            /\ out' = Out("nil", "debit_error", 0, <<>>, <<>>)
            /\ pc' = "tdefer"
            /\ UNCHANGED <<work, txState, table>>
        ELSE
            /\ work' = SqlAddScore(work, call.id, -call.n)
            /\ table' = TxWrite(table, SqlAddScore(work, call.id, -call.n))
            /\ txState' = "Debited"
            /\ pc' = "t162"
            /\ UNCHANGED out
    /\ UNCHANGED <<main, seq, assigned, call, pre, txOpen, rowsOpen, rowsErr, cursor, users,
                   ctxExpired, qerr>>

\* UPDATE users SET score = score + ? WHERE id = ? (lines 162-166)
transferCredit ==
    /\ pc = "t162"
    /\ \E fail \in BOOLEAN :
        IF fail \/ ViolatesCheck(SqlAddScore(work, call.to, call.n)) THEN
            /\ out' = Out("nil", "credit_error", 0, <<>>, <<>>)
            /\ pc' = "tdefer"
            /\ UNCHANGED <<work, txState, table>>
        ELSE
            /\ work' = SqlAddScore(work, call.to, call.n)
            /\ table' = TxWrite(table, SqlAddScore(work, call.to, call.n))
            /\ txState' = "Credited"
            /\ pc' = "t169"
            /\ UNCHANGED out
    /\ UNCHANGED <<main, seq, assigned, call, pre, txOpen, rowsOpen, rowsErr, cursor, users,
                   ctxExpired, qerr>>

\* what the store holds once the transaction has ended without a commit
TxRollbackKeepsWrites(committed, working) == working
TxRollback(committed, working) == committed

\* what the store holds once COMMIT has succeeded
TxCommitLosesWrites(committed, working) == committed
TxCommit(committed, working) == working

\* err = tx.Commit() (lines 169-174).  Either way the transaction is over: a
\* COMMIT that fails is rolled back by the driver.
transferCommit ==
    /\ pc = "t169"
    /\ \E fail \in BOOLEAN :
        IF fail THEN
            /\ table' = TxRollback(table, work)
            /\ txState' = "RolledBack"
            /\ out' = Out("nil", "commit_error", 0, <<>>, <<>>)
        ELSE
            /\ table' = TxCommit(table, work)
            /\ txState' = "Committed"
            /\ out' = Out("nil", "success", 0, <<>>, <<>>)
    /\ txOpen' = txOpen - 1
    /\ work' = <<>>
    /\ pc' = "tdefer"
    /\ UNCHANGED <<main, seq, assigned, call, pre, rowsOpen, rowsErr, cursor, users, ctxExpired, qerr>>

\* tx.Rollback() acts only on a transaction that is not over yet (else ErrTxDone)
TxLiveAlways(state) == TRUE
TxLive(state) == state \in {"TxOpen", "Debited", "Credited"}

\* defer tx.Rollback() (line 152), run on every return after Begin succeeded
transferReturn ==
    /\ pc = "tdefer"
    /\ IF TxLive(txState) THEN
            /\ table' = TxRollback(table, work)
            /\ txState' = "RolledBack"
            /\ txOpen' = txOpen - 1
       ELSE UNCHANGED <<table, txState, txOpen>>
    /\ work' = <<>>
    /\ pc' = "ret"
    /\ UNCHANGED <<main, seq, assigned, call, pre, out, rowsOpen, rowsErr, cursor, users, ctxExpired,
                   qerr>>

\* ------------------------------------------------------------ queryWithTimeout
\* context.WithTimeout(context.Background(), 1*time.Millisecond) (line 184)
queryWithTimeoutStart ==
    /\ pc = "idle"
    /\ call' = Call("query", 0, 0, 0, "", "")
    /\ pre' = table
    /\ out' = NoOut
    /\ pc' = "q190"
    /\ UNCHANGED <<main, table, seq, assigned, txState, txOpen, work, rowsOpen, rowsErr, cursor, users,
                   ctxExpired, qerr>>

\* the context's timer fires while the function runs
ctxTimer ==
    /\ pc \in {"q190", "q196"}
    /\ ~ctxExpired
    /\ ctxExpired' = TRUE
    /\ UNCHANGED <<main, table, seq, assigned, pc, call, pre, out, txState, txOpen, work,
                   rowsOpen, rowsErr, cursor, users, qerr>>

\* err of db.QueryContext(ctx, ...): a context that is done ends the query with
\* the context's error; else the engine's error, if it fails
QueryIgnoresContext(expired, fail) == IF fail THEN "StoreUnavailable" ELSE "nil"
QueryContextErr(expired, fail) ==
    IF expired THEN "DeadlineExceeded"
    ELSE IF fail THEN "StoreUnavailable" ELSE "nil"

\* rows, err := db.QueryContext(ctx, ...) (line 190)
queryWithTimeoutQuery ==
    /\ pc = "q190"
    /\ \E fail \in BOOLEAN :
        /\ qerr' = QueryContextErr(ctxExpired, fail)
        /\ rowsOpen' = IF QueryContextErr(ctxExpired, fail) = "nil"
                       THEN rowsOpen + 1 ELSE rowsOpen
    /\ pc' = "q196"
    /\ UNCHANGED <<main, table, seq, assigned, call, pre, out, txState, txOpen, work, cursor,
                   users, ctxExpired, rowsErr>>

\* lines 196-205
queryWithTimeoutCheck ==
    /\ pc = "q196"
    /\ IF qerr # "nil" THEN
            IF ctxExpired THEN out' = Out("DeadlineExceeded", "", 0, <<>>, <<>>)
            ELSE out' = Out(qerr, "", 0, <<>>, <<>>)
       ELSE out' = Out("nil", "query_ok", 0, <<>>, <<>>)
    /\ pc' = "qdefer"
    /\ UNCHANGED <<main, table, seq, assigned, call, pre, txState, txOpen, work, rowsOpen, rowsErr,
                   cursor, users, ctxExpired, qerr>>

\* defer rows.Close() (line 202, registered only when err == nil) and defer cancel()
queryWithTimeoutReturn ==
    /\ pc = "qdefer"
    /\ rowsOpen' = IF qerr = "nil" THEN RowsClose(rowsOpen) ELSE rowsOpen
    /\ pc' = "ret"
    /\ UNCHANGED <<main, table, seq, assigned, call, pre, out, txState, txOpen, work, cursor,
                   users, ctxExpired, qerr, rowsErr>>

\* ------------------------------------------------------------ the caller
\* the call main makes at its line (lines 37-67)
MainCall(m) ==
    CASE m.line = 37 -> Call("insert", 0, 0, AliceScore, "Alice", "alice@example.com")
      [] m.line = 38 -> Call("insert", 0, 0, BobScore, "Bob", "bob@example.com")
      [] m.line = 42 -> Call("update", m.idAlice, 0, AliceNewScore, "", "")
      [] m.line = 46 -> Call("get", m.idAlice, 0, 0, "", "")
      [] m.line = 55 -> Call("list", 0, 0, 0, "", "")
      [] m.line = 63 -> Call("transfer", m.idBob, m.idAlice, TransferAmount, "", "")
      [] m.line = 67 -> Call("query", 0, 0, 0, "", "")
      [] OTHER -> NoCall

\* the write the call asked for was done (history; main drops every error)
Done(c, o) ==
    CASE c.op = "insert" -> o.err = "nil"
      [] c.op = "update" -> o.log = "updated"
      [] c.op = "transfer" -> o.log = "success"
      [] OTHER -> TRUE

\* main after the call at its line has returned: idAlice, _ := ..., and so on
\* down to the end of main (line 70)
MainAfter(m, c, o) ==
    CASE m.line = 0 -> m
      [] m.line = 37 -> Main(38, o.id, m.idBob, m.ok /\ Done(c, o))
      [] m.line = 38 -> Main(42, m.idAlice, o.id, m.ok /\ Done(c, o))
      [] m.line = 42 -> Main(46, m.idAlice, m.idBob, m.ok /\ Done(c, o))
      [] m.line = 46 -> Main(55, m.idAlice, m.idBob, m.ok)
      [] m.line = 55 -> Main(63, m.idAlice, m.idBob, m.ok)
      [] m.line = 63 -> Main(67, m.idAlice, m.idBob, m.ok /\ Done(c, o))
      [] OTHER -> Main(70, m.idAlice, m.idBob, m.ok)

\* the calls of the caller that makes any call: arguments within the bounds,
\* and transfers that keep every score within them
FreeCall(c) ==
    CASE c.op = "insert" -> <<c.name, c.email>> \in NewUsers /\ c.n \in NewScores
      [] c.op = "update" -> c.id \in Ids /\ c.n \in Scores
      [] c.op = "get" -> c.id \in Ids
      [] c.op = "transfer" ->
            /\ c.id \in Ids /\ c.to \in Ids /\ c.n \in Amounts
            /\ InRange(SqlAddScore(table, c.id, -c.n))
            /\ InRange(Transferred(table, c.id, c.to, c.n))
      [] OTHER -> TRUE

\* the caller makes call c now
CallerPicks(c) == IF main.line = 0 THEN FreeCall(c) ELSE c = MainCall(main)

\* every argument a call is made with
AllScores == Scores \cup {AliceScore, BobScore, AliceNewScore}
AllIds == Ids \cup {0}
AllAmounts == Amounts \cup {TransferAmount}

\* main uses what the call returned and goes on to its next call: the call's
\* results, its Tx and its context go out of scope
callerContinues ==
    /\ pc = "ret"
    /\ pc' = "idle"
    /\ call' = NoCall
    /\ pre' = <<>>
    /\ out' = NoOut
    /\ txState' = "Idle"
    /\ ctxExpired' = FALSE
    /\ qerr' = "nil"
    /\ rowsErr' = "nil"
    /\ main' = MainAfter(main, call, out)
    /\ UNCHANGED <<table, seq, assigned, txOpen, work, rowsOpen, cursor, users>>

Next ==
    \/ /\ pc = "idle"
       /\ \E u \in NewUsers, score \in AllScores :
              /\ CallerPicks(Call("insert", 0, 0, score, u[1], u[2]))
              /\ insertUser(u[1], u[2], score)
    \/ /\ pc = "idle"
       /\ \E id \in AllIds, v \in AllScores :
              /\ CallerPicks(Call("update", id, 0, v, "", ""))
              /\ updateScore(id, v)
    \/ /\ pc = "idle"
       /\ \E id \in AllIds :
              /\ CallerPicks(Call("get", id, 0, 0, "", ""))
              /\ getUserByID(id)
    \/ /\ pc = "idle"
       /\ CallerPicks(Call("list", 0, 0, 0, "", ""))
       /\ getAllUsersQuery
    \/ getAllUsersNext
    \/ getAllUsersEnd
    \/ getAllUsersReturn
    \/ /\ pc = "idle"
       /\ \E fromID \in AllIds, toID \in AllIds, amount \in AllAmounts :
              /\ CallerPicks(Call("transfer", fromID, toID, amount, "", ""))
              /\ transferBegin(fromID, toID, amount)
    \/ transferDebit
    \/ transferCredit
    \/ transferCommit
    \/ transferReturn
    \/ /\ pc = "idle"
       /\ CallerPicks(Call("query", 0, 0, 0, "", ""))
       /\ queryWithTimeoutStart
    \/ ctxTimer
    \/ queryWithTimeoutQuery
    \/ queryWithTimeoutCheck
    \/ queryWithTimeoutReturn
    \/ callerContinues

Spec == Init /\ [][Next]_vars

\* main's run, from its first call to its end
MainSpec == MainInit /\ [][Next]_vars

\* A function that has been called runs on to its return: the caller is one
\* goroutine and no step of these functions waits for another goroutine.
FairSpec ==
    /\ Spec
    /\ WF_vars(transferDebit) /\ WF_vars(transferCredit)
    /\ WF_vars(transferCommit) /\ WF_vars(transferReturn)
    /\ WF_vars(getAllUsersNext \/ getAllUsersEnd) /\ WF_vars(getAllUsersReturn)
    /\ WF_vars(queryWithTimeoutQuery) /\ WF_vars(queryWithTimeoutCheck)
    /\ WF_vars(queryWithTimeoutReturn)

\* ------------------------------------------------------------ properties
\* the function named op has just returned to its caller
Returned(op) == pc = "ret" /\ call.op = op

\* an engine call of the last transferScore failed after db.Begin succeeded
StepFailed == out.log \in {"debit_error", "credit_error", "commit_error"}

C2_Conservation ==
    Returned("transfer") => SumScores(table) = SumScores(pre)

\* C3: a transfer in which fromID or toID references no row fails with
\* NotFound and leaves every row as it was (engine failures aside: there
\* the error is the engine's).
C3_MissingIdNotFound ==
    (/\ Returned("transfer")
     /\ out.log \notin {"begin_error", "debit_error", "credit_error", "commit_error"}
     /\ ~(HasId(pre, call.id) /\ HasId(pre, call.to))) =>
        /\ out.err = "NotFound"
        /\ table = pre

\* the rows other than fromID and toID are as before the call
OthersUnchanged ==
    /\ Len(table) = Len(pre)
    /\ \A i \in DOMAIN pre : pre[i].id \notin {call.id, call.to} => table[i] = pre[i]

\* the sender's score went down by amount and the receiver's went up by amount
DebitedAndCredited ==
    /\ RowOf(table, call.id).score = RowOf(pre, call.id).score - call.n
    /\ RowOf(table, call.to).score = RowOf(pre, call.to).score + call.n

\* both ids exist and the transfer committed
TransferDone ==
    /\ Returned("transfer")
    /\ out.log = "success"
    /\ HasId(pre, call.id) /\ HasId(pre, call.to)

\* C4 as stated: after a transfer between existing ids in which no step
\* fails, score(from) is its old value minus amount, score(to) its old value
\* plus amount, and every other score is unchanged.
C4_Original == TransferDone => (DebitedAndCredited /\ OthersUnchanged)

\* C4: the same for two different ids (with from = to the debit and the credit
\* fall on one row, which cannot be both amount lower and amount higher).
C4_TransferMovesAmount ==
    (TransferDone /\ call.id # call.to) =>
        /\ DebitedAndCredited
        /\ OthersUnchanged
        /\ \A i \in DOMAIN pre : /\ table[i].id = pre[i].id
                                 /\ table[i].name = pre[i].name
                                 /\ table[i].email = pre[i].email

\* a committed transfer between two of three rows
C4_Witness ==
    /\ TransferDone
    /\ call.id # call.to
    /\ Len(pre) = 3
    /\ table # pre

\* the steps of one transaction, from db.Begin to its end
TxTransitions ==
    {<<"Idle", "TxOpen">>, <<"TxOpen", "Debited">>, <<"Debited", "Credited">>,
     <<"Credited", "Committed">>, <<"TxOpen", "RolledBack">>,
     <<"Debited", "RolledBack">>, <<"Credited", "RolledBack">>}

TxTerminal == {"Committed", "RolledBack"}

\* C5: while transferScore runs, its transaction takes only the steps
\* Idle -> TxOpen -> Debited -> Credited -> Committed or TxOpen, Debited,
\* Credited -> RolledBack; once opened it reaches Committed or RolledBack,
\* has done so when the function returns, and stays there: the deferred
\* rollback that runs after a commit changes neither the state nor the rows.
C5_TxStateMachine ==
    /\ [][pc # "ret" => (txState' = txState \/ <<txState, txState'>> \in TxTransitions)]_vars
    /\ [][(pc # "ret" /\ txState = "Committed") =>
              (txState' = "Committed" /\ table' = table)]_vars
    /\ [](txState = "TxOpen" => <>(txState \in TxTerminal))
    /\ []((Returned("transfer") /\ out.log # "begin_error") => txState \in TxTerminal)

\* the function returned after a commit that changed rows: the deferred
\* rollback has run and the rows are still the committed ones
C5_Witness ==
    /\ Returned("transfer")
    /\ txState = "Committed"
    /\ table # pre
    /\ table = Transferred(pre, call.id, call.to, call.n)

\* C6: whenever a function has returned to the caller, on whatever path, no
\* transaction and no cursor is open on the handle.
C6_ResourcesReleased ==
    pc \in {"ret", "idle"} => (txOpen = 0 /\ rowsOpen = 0)

\* getAllUsers returned an error after its cursor had delivered a row
C6_Witness ==
    /\ Returned("list")
    /\ out.err # "nil"
    /\ out.users # <<>>
    /\ rowsOpen = 0

\* C7: insertUser with an email that a row already holds never succeeds and
\* leaves the table as it was, and the error is the constraint violation
\* whenever the engine has run the statement; so no two rows ever share an
\* email.
C7_DuplicateEmailRefused ==
    /\ (Returned("insert") /\ HasEmail(pre, call.email)) =>
            /\ out.err # "nil"
            /\ out.err # "StoreUnavailable" => out.err = "ConstraintViolation"
            /\ table = pre
    /\ \A i, j \in DOMAIN table : table[i].email = table[j].email => i = j

\* an insert was refused for its email, which a row with another name holds
C7_Witness ==
    /\ Returned("insert")
    /\ out.err = "ConstraintViolation"
    /\ \E i \in DOMAIN table : table[i].email = call.email /\ table[i].name # call.name
    /\ table = pre

\* C8: after a successful insertUser, getUserByID of the returned id gives a
\* row with exactly the name, email and score passed in; the returned id was
\* never assigned before; and no step of any function changes the id, name or
\* email of a row or removes a row.
C8_CreateThenGet ==
    /\ []((Returned("insert") /\ out.err = "nil") =>
            /\ GetUserByID(table, out.id).err = "nil"
            /\ GetUserByID(table, out.id).user =
                   <<User(out.id, call.name, call.email, call.n)>>)
    /\ [][(call'.op = "insert" /\ pc' = "ret" /\ out'.err = "nil") =>
              out'.id \notin assigned]_vars
    /\ [][\A i \in DOMAIN table :
              /\ i \in DOMAIN table'
              /\ table'[i].id = table[i].id
              /\ table'[i].name = table[i].name
              /\ table'[i].email = table[i].email]_vars

\* the third insert succeeded, with a score that is not zero
C8_Witness ==
    /\ Returned("insert")
    /\ out.err = "nil"
    /\ Cardinality(assigned) = 3
    /\ call.n # 0

\* C9: after updateScore(id, v) on an existing id whose UPDATE was executed,
\* getUserByID(id) gives score v whatever the score was before, and every
\* other row is as it was.
C9_UpdateThenGet ==
    (Returned("update") /\ out.log = "updated" /\ HasId(pre, call.id)) =>
        /\ GetUserByID(table, call.id).err = "nil"
        /\ GetUserByID(table, call.id).user[1].score = call.n
        /\ Len(table) = Len(pre)
        /\ \A i \in DOMAIN pre : pre[i].id # call.id => table[i] = pre[i]
        /\ \A i \in DOMAIN pre : pre[i].id = call.id =>
               table[i] = [pre[i] EXCEPT !.score = call.n]

\* an update overwrote a different score, in a table with other rows
C9_Witness ==
    /\ Returned("update")
    /\ out.log = "updated"
    /\ HasId(pre, call.id)
    /\ RowOf(pre, call.id).score # call.n
    /\ Len(pre) = 3

\* descending by score
SortedDesc(us) == \A i, j \in DOMAIN us : i < j => us[i].score >= us[j].score

\* C10: the list getAllUsers returns is sorted by descending score, and when
\* it returns no error the list holds exactly the rows of the table.
C10_ListSortedDesc ==
    Returned("list") =>
        /\ SortedDesc(out.users)
        /\ out.err = "nil" =>
               /\ Len(out.users) = Len(table)
               /\ \A i \in DOMAIN table : \E j \in DOMAIN out.users : out.users[j] = table[i]

\* a full list of three rows whose table order is not the order by score
C10_Witness ==
    /\ Returned("list")
    /\ out.err = "nil"
    /\ Len(out.users) = 3
    /\ table[1].score < table[2].score
    /\ table[2].score < table[3].score

\* C11: getUserByID of an id that no row has returns an error of the kind
\* NotFound, which the caller can tell from an engine failure by its kind
\* (engine failures aside: there the error is the engine's).
C11_GetMissingIsNotFound ==
    (Returned("get") /\ ~HasId(pre, call.id) /\ out.err # "StoreUnavailable") =>
        out.err = "NotFound"

\* C14: a transfer that did not commit returns an error value to its caller.
C14_TransferFailureReturned ==
    (Returned("transfer") /\ out.log # "success") => out.err # "nil"

\* C17: updateScore of an id that no row has changes no row and returns no
\* error; when the engine ran the UPDATE it logs the update like any other.
C17_UpdateMissingIsSilent ==
    (Returned("update") /\ ~HasId(pre, call.id)) =>
        /\ table = pre
        /\ out.err = "nil"
        /\ out.log \in {"updated", "update_error"}

\* the UPDATE ran on a table whose rows all hold another score than the new
\* one, for an id none of them has
C17_Witness ==
    /\ Returned("update")
    /\ out.log = "updated"
    /\ ~HasId(pre, call.id)
    /\ Len(pre) = 2
    /\ \A i \in DOMAIN pre : pre[i].score # call.n

\* C19: queryWithTimeout reports a timeout only for a query that the deadline
\* ended: when QueryContext failed for another reason the error returned is
\* not the timeout error.
C19_TimeoutOnlyForDeadline ==
    (Returned("query") /\ out.err = "DeadlineExceeded") => qerr = "DeadlineExceeded"

\* C20: a committed transfer from an existing row to itself leaves every row
\* as it was, for every amount.
C20_SelfTransferIsIdentity ==
    (/\ Returned("transfer")
     /\ call.id = call.to
     /\ HasId(pre, call.id)
     /\ out.log = "success") =>
        /\ txState = "Committed"
        /\ table = pre

\* a self transfer committed in a table with other rows
C20_Witness ==
    /\ Returned("transfer")
    /\ call.id = call.to
    /\ HasId(pre, call.id)
    /\ out.log = "success"
    /\ txState = "Committed"
    /\ Len(pre) = 2

\* C12: when the cursor of getAllUsers fails, in rows.Scan or while stepping
\* (rows.Err()), the function returns that error to its caller: the rows read
\* so far never come back as the result of a call that succeeded.
C12_CursorFailureReturned ==
    (Returned("list") /\ rowsErr # "nil") =>
        /\ out.err # "nil"
        /\ out.err = rowsErr

\* the cursor failed while stepping, after it had delivered one of two rows
C12_Witness ==
    /\ Returned("list")
    /\ rowsErr # "nil"
    /\ Len(out.users) = 1
    /\ Len(pre) = 2

\* C13: a query whose deadline has passed when it is issued, on a table that
\* holds rows, ends with the deadline error and queryWithTimeout returns the
\* timeout error and no rows (no cursor is left); a query whose deadline has
\* not passed never ends with the deadline error, and one that completed
\* returns success.
C13_BoundedWait ==
    /\ [][(pc = "q190" /\ pc' = "q196" /\ ctxExpired /\ table # <<>>) =>
              (qerr' = "DeadlineExceeded" /\ rowsOpen' = rowsOpen)]_vars
    /\ []((Returned("query") /\ qerr = "DeadlineExceeded") =>
              (out.err = "DeadlineExceeded" /\ out.users = <<>> /\ rowsOpen = 0))
    /\ [][(pc = "q190" /\ pc' = "q196" /\ ~ctxExpired) =>
              qerr' # "DeadlineExceeded"]_vars
    /\ []((Returned("query") /\ qerr = "nil") =>
              (out.err = "nil" /\ out.log = "query_ok"))

\* the timeout was returned for a query on a table that holds rows
C13_Witness ==
    /\ Returned("query")
    /\ pre # <<>>
    /\ qerr = "DeadlineExceeded"
    /\ out.err = "DeadlineExceeded"

\* C16: while transferScore runs and after it, what a read outside its
\* transaction finds is the rows as they were before the call or as the
\* commit left them; while the transaction is open (debited or not, credited
\* or not) getUserByID of every id and the list of all users are those of
\* before the call.
C16_NoPartialTransferVisible ==
    (call.op = "transfer" /\ pc # "idle") =>
        /\ table \in {pre, Transferred(pre, call.id, call.to, call.n)}
        /\ txState \in {"TxOpen", "Debited", "Credited"} =>
               /\ \A id \in Ids : GetUserByID(table, id) = GetUserByID(pre, id)
               /\ SqlSelectAllByScoreDesc(table) = SqlSelectAllByScoreDesc(pre)

\* the transaction has debited an existing sender and not yet credited the
\* other row
C16_Witness ==
    /\ call.op = "transfer"
    /\ pc = "t162"
    /\ txState = "Debited"
    /\ HasId(pre, call.id) /\ HasId(pre, call.to) /\ call.id # call.to
    /\ work # table

\* the sender's score before the call was lower than the amount
Overdrawn == call.n > RowOf(pre, call.id).score

\* the sender's score is its old value minus amount, and negative
LeftNegative ==
    /\ RowOf(table, call.id).score = RowOf(pre, call.id).score - call.n
    /\ RowOf(table, call.id).score < 0

\* C18 as stated: a committed transfer between existing ids with amount
\* greater than score(from) leaves score(from) negative, at its old value
\* minus amount.
C18_Original == (TransferDone /\ Overdrawn) => LeftNegative

\* C18: the same for two different ids; and whatever the scores, the debit,
\* the credit and the commit of a running transfer can each succeed: no step
\* is refused for the balance it leaves.
C18_NoBalanceCheck ==
    /\ (TransferDone /\ Overdrawn /\ call.id # call.to) => LeftNegative
    /\ pc = "t155" => ENABLED (transferDebit /\ txState' = "Debited")
    /\ pc = "t162" => ENABLED (transferCredit /\ txState' = "Credited")
    /\ pc = "t169" => ENABLED (transferCommit /\ txState' = "Committed")

\* a transfer of more than the sender had has committed
C18_Witness ==
    /\ TransferDone
    /\ Overdrawn
    /\ call.id # call.to
    /\ RowOf(pre, call.id).score >= 0
    /\ RowOf(table, call.id).score < 0

\* C15: in main's run on an empty table, when the two inserts, the update to
\* 120 and the transfer of 20 have all been done, Alice has id 1 and Bob id 2
\* and getUserByID gives score 140 for id 1 and 130 for id 2.
C15_MainScenario ==
    (main.line > 63 /\ main.ok) =>
        /\ main.idAlice = 1
        /\ main.idBob = 2
        /\ GetUserByID(table, 1).err = "nil"
        /\ GetUserByID(table, 1).user[1].score = 140
        /\ GetUserByID(table, 1).user[1].name = "Alice"
        /\ GetUserByID(table, 2).err = "nil"
        /\ GetUserByID(table, 2).user[1].score = 130
        /\ GetUserByID(table, 2).user[1].name = "Bob"

\* main has reached its end and every write it asked for was done
C15_Witness ==
    /\ main.line = 70
    /\ main.ok
    /\ Len(table) = 2
====
